---- MODULE Spec2Model ----
(***************************************************************************)
(* Model of the consultation session controller of                         *)
(* src/app/consultation/page.tsx (ConsultationPage): the React state, the  *)
(* refs, and every callback the page schedules (the fetch, the 30 s        *)
(* timeout timer, the reveal-start timer and the reveal batch timers).     *)
(*                                                                         *)
(* Strings are sequences of atoms.  An atom is either the space " " or a   *)
(* chunk of text that contains no space, so that split(' '), join(' '),    *)
(* trim() and includes() act on the atoms exactly as they act on the       *)
(* characters of the JavaScript string.  Long fixed texts are cut to their *)
(* leading tokens; the tokens the code tests for are kept.                 *)
(*                                                                         *)
(* The JavaScript event loop is single-threaded: one action is one task of *)
(* the loop (an event handler, a timer callback, or the continuation of    *)
(* handleConsult after an await together with the microtasks it runs).     *)
(* Timers fire in any order: the model does not measure time.              *)
(***************************************************************************)
EXTENDS Integers, Sequences, FiniteSets, TLC

\* ---------------------------------------------------------------- bounds
\* number of submits that are accepted in one behaviour
MaxRequests == 2

\* ------------------------------------------------------------- strings
SP == " "
\* the newline character, and the white space String.prototype.trim strips
NL == "\n"
WhiteSpace == {SP, NL}

RECURSIVE TrimStart(_)
TrimStart(s) ==
  IF s = <<>> THEN s
  ELSE IF Head(s) \in WhiteSpace THEN TrimStart(Tail(s)) ELSE s

RECURSIVE TrimEnd(_)
TrimEnd(s) ==
  IF s = <<>> THEN s
  ELSE IF s[Len(s)] \in WhiteSpace
       THEN TrimEnd(SubSeq(s, 1, Len(s) - 1)) ELSE s

\* String.prototype.trim
Trim(s) == TrimEnd(TrimStart(s))

\* the number of spaces among the first i atoms of s
SpacesUpTo(s, i) == Cardinality({ j \in 1..i : s[j] = SP })

\* the position of the k-th space of s; 0 for k = 0, and Len(s) + 1 when s
\* has fewer than k spaces
SpaceAt(s, k) ==
  IF k = 0 THEN 0
  ELSE IF SpacesUpTo(s, Len(s)) < k THEN Len(s) + 1
  ELSE CHOOSE i \in 1..Len(s) : s[i] = SP /\ SpacesUpTo(s, i) = k

\* fullContent.split(' '): the pieces of s between its spaces, one more than
\* it has spaces (a piece is empty where two spaces meet or s begins or ends
\* with one)
Split(s) ==
  [k \in 1..(SpacesUpTo(s, Len(s)) + 1) |->
     SubSeq(s, SpaceAt(s, k - 1) + 1, SpaceAt(s, k) - 1)]

\* a join that puts nothing between the words: words.join('')
RECURSIVE Join_NoSeparator(_)
Join_NoSeparator(ws) ==
  IF ws = <<>> THEN <<>> ELSE ws[1] \o Join_NoSeparator(Tail(ws))

\* words.join(' ')
RECURSIVE Join(_)
Join(ws) ==
  IF ws = <<>> THEN <<>>
  ELSE IF Len(ws) = 1 THEN ws[1]
  ELSE ws[1] \o <<SP>> \o Join(Tail(ws))

\* words.slice(0, n)
Slice(ws, n) == SubSeq(ws, 1, IF n < Len(ws) THEN n ELSE Len(ws))

\* message.includes(sub)
Includes(s, sub) ==
  \E i \in 0..(Len(s) - Len(sub)) : SubSeq(s, i + 1, i + Len(sub)) = sub

Min(a, b) == IF a < b THEN a ELSE b

\* ------------------------------------------------------- fixed texts
\* a rejection of the timeout promise whose message lacks the word "timeout"
TimeoutMessage_NoKeyword == <<"Request", SP, "expired">>

\* reject(new Error('Request timeout after 30 seconds'))
TimeoutMessage == <<"Request", SP, "timeout", SP, "after", SP, "30", SP, "seconds">>
\* the TypeError message of a fetch that failed at the transport level
FailedToFetch == <<"Failed", SP, "to", SP, "fetch">>
\* the texts of the catch block (cut to their leading tokens)
TimeoutText     == <<"[stopwatch]", SP, "Request">>
ConnectText     == <<"[globe]", SP, "Unable">>
CorsText        == <<"[lock]", SP, "Cross-origin">>
ServerErrorHead == <<"[siren]", SP, "Server", SP, "Error", ":", SP>>
ErrorHead       == <<"[cross]", SP, "Error", ":", SP>>
SomethingWrong  == <<"Something", SP, "went", SP, "wrong.">>
ApiCallFailed   == <<"API", SP, "call", SP, "failed">>
\* the placeholder of the success path
Placeholder     == <<"I", SP, "apologize">>
\* Object.prototype.toString of a parsed JSON object
ObjectToString  == <<"[object", SP, "Object]">>

\* `Server error: ${res.status} ${res.statusText}. Response: ${errorText}`
ServerErrorMessage(res) ==
  <<"Server", SP, "error", ":", SP, res.status, SP, res.statusText, ".", SP,
    "Response", ":", SP>> \o res.body

\* `Invalid JSON response: ${responseText}`
InvalidJsonMessage(text) ==
  <<"Invalid", SP, "JSON", SP, "response", ":", SP>> \o text

\* ------------------------------------------------- response bodies
\* the body text of a JSON object {"response": "<text>"}
JsonOpen  == "{response:"
JsonClose == "}"
JsonObj(text) == <<JsonOpen>> \o text \o <<JsonClose>>
EmptyObj == <<"{}">>
\* the body text of the empty JSON array
EmptyArr == <<"[]">>

\* JSON.parse(responseText) on the body texts of the model: an object with
\* a response field, an object without one, or a SyntaxError
JsonParse(text) ==
  IF Len(text) >= 2 /\ text[1] = JsonOpen /\ text[Len(text)] = JsonClose
  THEN [kind |-> "object", response |-> SubSeq(text, 2, Len(text) - 1)]
  ELSE IF text = EmptyObj
  THEN [kind |-> "object", response |-> <<>>]
  ELSE IF text = EmptyArr
  THEN [kind |-> "array", response |-> <<>>]
  ELSE [kind |-> "error"]

\* json.toString(): Object.prototype.toString of an object, and
\* Array.prototype.toString of the empty array, which is ""
JsonToString(json) == IF json.kind = "array" THEN <<>> ELSE ObjectToString

\* json.response || json.toString() || "I apologize, ..."
ResponseContent(json) ==
  IF json.response # <<>> THEN json.response
  ELSE IF JsonToString(json) # <<>> THEN JsonToString(json)
  ELSE Placeholder

\* the errorContent of the catch block, from e.message
ErrorContent(msg) ==
  IF Includes(msg, <<"timeout">>) THEN TimeoutText
  ELSE IF Includes(msg, FailedToFetch) \/ Includes(msg, <<"NetworkError">>)
  THEN ConnectText
  ELSE IF Includes(msg, <<"CORS">>) THEN CorsText
  ELSE IF Includes(msg, <<"Server", SP, "error">>) THEN ServerErrorHead \o msg
  ELSE ErrorHead \o (IF msg # <<>> THEN msg ELSE SomethingWrong)

\* ------------------------------------------------------------- inputs
\* what the user types into the textarea: blanks only, or the sample question
\* with blanks around it
TypedQueries == { <<SP>>, <<SP, "What", SP, "rights?", SP>> }
\* sampleQuestions (one of the six, cut to two tokens)
sampleQuestions == { <<"What", SP, "rights?">> }

\* the responses of the consultation service
OkBodies == { JsonObj(<<"x", SP, "y", SP, "z">>), <<"<html>">> }
Responses ==
  { [ok |-> TRUE, status |-> "200", statusText |-> "OK", body |-> b] :
      b \in OkBodies }
\* responses with a non-2xx status: an error page of the service, and a
\* gateway error whose body mentions a timeout
ErrorResponses ==
  { [ok |-> FALSE, status |-> "500", statusText |-> "Internal",
     body |-> <<"oops">>],
    [ok |-> FALSE, status |-> "504", statusText |-> "Gateway",
     body |-> <<"upstream", SP, "timeout">>] }
\* the messages of a fetch rejected by the transport
FetchErrors == { FailedToFetch }

\* -------------------------------------------------------------- state
VARIABLES
  query,             \* useState("")            the input draft
  loading,           \* useState(false)
  error,             \* useState<string|null>(null)
  messages,          \* useState<Message[]>([])  the transcript
  userId,            \* useState("")            after the mount effect
  storage,           \* localStorage: key -> value, "" for an absent key
  results,           \* the search page: the response of the last search
  mounted,           \* the page is mounted (its cleanup effect has not run)
  showInstructions,  \* useState(true)
  isTypingActive,    \* useState(false)
  typingTimeoutRef,  \* the request whose reveal chain set the ref last, 0 = null
  abortControllerRef,\* the request whose AbortController the ref holds, 0 = null
  aborted,           \* the requests whose AbortController has been aborted
  req,               \* per accepted submit: the handleConsult call and its callbacks
  nReq,              \* number of accepted submits
  nextId,            \* the next uuidv4() value
  lastOp,            \* history: the handler the last step ran, "handleConsult",
                     \*          "handleNewChat", "unmount" or "onChangeDropped"
                     \*          (an onChange over the limit); "other" otherwise
  callLog,           \* history: ids of the user messages of the accepted
                     \*          submits since the last reset, in call order
  resetDone          \* history: a reset happened and no submit was accepted since

vars == <<query, loading, error, messages, userId, storage, results, mounted,
          showInstructions,
          isTypingActive, typingTimeoutRef, abortControllerRef, aborted, req,
          nReq, nextId, lastOp, callLog, resetDone>>

Null == [null |-> TRUE]
ErrorOf(msg) == [null |-> FALSE, message |-> msg]

ReqIds == 1..MaxRequests

\* a handleConsult call that has not been made yet
NoReq ==
  [pc |-> "unused", fetch |-> "none", timer |-> "none", res |-> Null,
   query |-> <<>>, userId |-> "", simulateTypingSees |-> FALSE,
   userMsg |-> 0, msgId |-> 0, content |-> <<>>, start |-> "none",
   chain |-> "none", idx |-> 0, applied |-> 0]

\* the mount effect: read user_id from localStorage, or generate and store it
StoredId == ""
MountUserId(stored) == IF stored = "" THEN "uid-new" ELSE stored

\* localStorage of the origin: the key of the page and the rest of the store
StorageKeys == {"user_id", "other"}
getItem(st, key) == st[key]
setItem(st, key, value) == [st EXCEPT ![key] = value]
StorageWith(uid, rest) ==
  [k \in StorageKeys |-> IF k = "user_id" THEN uid ELSE rest]

Init ==
  /\ query = <<>>
  /\ loading = FALSE
  /\ error = Null
  /\ messages = <<>>
  /\ userId = MountUserId(StoredId)
  /\ storage = StorageWith(MountUserId(StoredId), "")
  /\ results = Null
  /\ mounted = TRUE
  /\ showInstructions = TRUE
  /\ isTypingActive = FALSE
  /\ typingTimeoutRef = 0
  /\ abortControllerRef = 0
  /\ aborted = {}
  /\ req = [r \in ReqIds |-> NoReq]
  /\ nReq = 0
  /\ nextId = 1
  /\ lastOp = "init"
  /\ callLog = <<>>
  /\ resetDone = FALSE

\* the effect on [messages.length]: hide the instructions once there is a message
HideInstructions(msgs, show) == IF Len(msgs) > 0 THEN FALSE ELSE show

MaxQueryLength == 2000

\* a chunk of MaxQueryLength + 1 characters without a blank
LongWord == "aaa...a"

\* e.target.value.length: the number of characters of a text
AtomLength(a) ==
  CASE a = "What"    -> 4
    [] a = "rights?" -> 7
    [] a = LongWord  -> MaxQueryLength + 1
    [] OTHER         -> 1

RECURSIVE Length(_)
Length(s) == IF s = <<>> THEN 0 ELSE AtomLength(Head(s)) + Length(Tail(s))

\* an onChange that accepts a text of any length
WithinLimit_Always(q) == TRUE

\* an onChange that tests e.target.value.length <= 2001
WithinLimit_OffByOne(q) == Length(q) <= MaxQueryLength + 1

\* e.target.value.length <= 2000
WithinLimit(q) == Length(q) <= MaxQueryLength

\* a text of MaxQueryLength + 1 characters, typed or pasted into the textarea
OversizedQuery == <<LongWord>>

\* ------------------------------------------------------ the textarea
\* Textarea onChange; the textarea is disabled while loading || isTypingActive
SetQuery(q) ==
  /\ mounted
  /\ ~(loading \/ isTypingActive)
  /\ IF WithinLimit(q)
     THEN query' = q /\ error' = Null /\ lastOp' = "other"
     ELSE UNCHANGED <<query, error>> /\ lastOp' = "onChangeDropped"
  /\ UNCHANGED <<loading, messages, userId, storage, results, mounted,
                 showInstructions,
                 isTypingActive, typingTimeoutRef, abortControllerRef, aborted,
                 req, nReq, nextId, callLog, resetDone>>

\* handleSampleQuestion; its buttons are in the instructions panel and are
\* disabled while loading || isTypingActive
handleSampleQuestion(question) ==
  /\ mounted
  /\ showInstructions
  /\ ~(loading \/ isTypingActive)
  /\ query' = question
  /\ error' = Null
  /\ lastOp' = "other"
  /\ UNCHANGED <<loading, messages, userId, storage, results, mounted,
                 showInstructions,
                 isTypingActive, typingTimeoutRef, abortControllerRef, aborted,
                 req, nReq, nextId, callLog, resetDone>>

\* ------------------------------------------------------ handleConsult
\* a guard that tests query instead of query.trim()
ConsultGuard_NoTrim(q, isLoading, typing) ==
  q # <<>> /\ ~isLoading /\ ~typing

\* a guard that does not test isTypingActive
ConsultGuard_NoTyping(q, isLoading, typing) ==
  Trim(q) # <<>> /\ ~isLoading

\* the negation of the early return of handleConsult
ConsultGuard(q, isLoading, typing) ==
  Trim(q) # <<>> /\ ~isLoading /\ ~typing

\* abortControllerRef.current.abort(): the controller of request a is
\* aborted; a fetch of a that is still pending rejects with an AbortError
AbortFetch(rq, a) ==
  IF a = 0 THEN rq
  ELSE [rq EXCEPT ![a].fetch = IF @ = "pending" THEN "settled" ELSE @]

\* a setMessages that puts the new message first: [message, ...prev]
AppendMessage_Prepend(msgs, m) == <<m>> \o msgs

\* setMessages(prev => [...prev, message]).  A message is a record with id
\* (uuidv4(): the number of the message in creation order), type, content and
\* timestamp (new Date(): the same creation order); an assistant message also
\* has isTyping and displayedContent.
AppendMessage(msgs, m) == Append(msgs, m)

\* the part of handleConsult up to `await Promise.race(...)`
handleConsultAccept ==
  /\ mounted
  /\ ConsultGuard(query, loading, isTypingActive)
  /\ nReq < MaxRequests
  /\ LET r == nReq + 1
         userMessage == [id |-> nextId, type |-> "user",
                         content |-> Trim(query), timestamp |-> nextId]
     IN /\ aborted' = IF abortControllerRef # 0
                      THEN aborted \cup {abortControllerRef} ELSE aborted
        /\ abortControllerRef' = r
        /\ messages' = AppendMessage(messages, userMessage)
        /\ showInstructions' = HideInstructions(messages', showInstructions)
        /\ query' = <<>>
        /\ loading' = TRUE
        /\ error' = Null
        /\ req' = [AbortFetch(req, abortControllerRef) EXCEPT ![r] =
                     [NoReq EXCEPT !.pc = "race", !.fetch = "pending",
                                   !.timer = "pending",
                                   !.query = Trim(query), !.userId = userId,
                                   !.simulateTypingSees = isTypingActive,
                                   !.userMsg = nextId]]
        /\ nReq' = r
        /\ nextId' = nextId + 1
        /\ callLog' = Append(callLog, nextId)
  /\ resetDone' = FALSE
  /\ lastOp' = "handleConsult"
  /\ UNCHANGED <<userId, storage, results, mounted, isTypingActive,
                 typingTimeoutRef>>

\* the early return of handleConsult
handleConsultReturn ==
  /\ mounted
  /\ ~ConsultGuard(query, loading, isTypingActive)
  /\ lastOp' = "handleConsult"
  /\ UNCHANGED <<query, loading, error, messages, userId, storage, results, mounted,
                 showInstructions, isTypingActive, typingTimeoutRef,
                 abortControllerRef, aborted, req, nReq, nextId, callLog,
                 resetDone>>

\* a finally block that forgets setLoading(false)
FinallyLoading_Skipped == loading

\* the finally block: setLoading(false)
FinallyLoading == FALSE

\* the success path after the body is parsed: append aiMessage, schedule
\* simulateTyping, and the finally block
Succeed(r, responseContent) ==
  /\ messages' = AppendMessage(messages,
                   [id |-> nextId, type |-> "ai", content |-> responseContent,
                    timestamp |-> nextId,
                    isTyping |-> TRUE, displayedContent |-> <<>>])
  /\ showInstructions' = HideInstructions(messages', showInstructions)
  /\ req' = [req EXCEPT ![r].pc = "done", ![r].res = Null,
                        ![r].msgId = nextId,
                        ![r].content = responseContent,
                        ![r].start = "pending", ![r].applied = @ + 1]
  /\ nextId' = nextId + 1
  /\ loading' = FinallyLoading
  /\ UNCHANGED error

\* a catch block that sends the request again instead of reporting the failure
Fail_Retry(r, rq, message) ==
  /\ req' = [rq EXCEPT ![r].pc = "race", ![r].res = Null,
                       ![r].fetch = "pending"]
  /\ UNCHANGED <<error, messages, showInstructions, nextId, loading>>

\* a catch block that shows and records nothing
Fail_Silent(r, rq, message) ==
  /\ req' = [rq EXCEPT ![r].pc = "done", ![r].res = Null]
  /\ loading' = FinallyLoading
  /\ UNCHANGED <<error, messages, showInstructions, nextId>>

\* the catch block for an error that is not an AbortError, and the finally block
Fail(r, rq, message) ==
  /\ error' = ErrorOf(IF message # <<>> THEN message ELSE ApiCallFailed)
  /\ messages' = AppendMessage(messages,
                   [id |-> nextId, type |-> "ai",
                    content |-> ErrorContent(message),
                    timestamp |-> nextId,
                    isTyping |-> TRUE, displayedContent |-> <<>>])
  /\ showInstructions' = HideInstructions(messages', showInstructions)
  /\ req' = [rq EXCEPT ![r].pc = "done", ![r].res = Null,
                       ![r].msgId = nextId,
                       ![r].content = ErrorContent(message),
                       ![r].start = "pending", ![r].applied = @ + 1]
  /\ nextId' = nextId + 1
  /\ loading' = FinallyLoading

\* a race that a second settlement settles again
RacePending_Always(rq) == rq.pc \in {"race", "done"}

\* Promise.race is still unsettled: handleConsult awaits it
RacePending(rq) == rq.pc = "race"

\* the fetch promise resolves with a Response; if the race is unsettled
\* handleConsult goes on to `await res.text()`
FetchResolves(r, res) ==
  /\ req[r].fetch = "pending"
  /\ req' = [req EXCEPT ![r].fetch = "settled",
                        ![r].res = IF RacePending(req[r]) THEN res ELSE @,
                        ![r].pc = IF RacePending(req[r]) THEN "text" ELSE @]
  /\ lastOp' = "other"
  /\ UNCHANGED <<query, loading, error, messages, userId, storage, results, mounted,
                 showInstructions, isTypingActive, typingTimeoutRef,
                 abortControllerRef, aborted, nReq, nextId, callLog, resetDone>>

\* the fetch promise rejects with a transport error
FetchRejects(r, message) ==
  /\ req[r].fetch = "pending"
  /\ IF RacePending(req[r])
     THEN Fail(r, [req EXCEPT ![r].fetch = "settled"], message)
     ELSE /\ req' = [req EXCEPT ![r].fetch = "settled"]
          /\ UNCHANGED <<error, messages, showInstructions, nextId, loading>>
  /\ lastOp' = "other"
  /\ UNCHANGED <<query, userId, storage, results, mounted, isTypingActive, typingTimeoutRef,
                 abortControllerRef, aborted, nReq, callLog, resetDone>>

\* the 30 s timer of timeoutPromise fires
TimeoutFires(r) ==
  /\ req[r].timer = "pending"
  /\ IF RacePending(req[r])
     THEN Fail(r, [req EXCEPT ![r].timer = "fired"], TimeoutMessage)
     ELSE /\ req' = [req EXCEPT ![r].timer = "fired"]
          /\ UNCHANGED <<error, messages, showInstructions, nextId, loading>>
  /\ lastOp' = "other"
  /\ UNCHANGED <<query, userId, storage, results, mounted, isTypingActive, typingTimeoutRef,
                 abortControllerRef, aborted, nReq, callLog, resetDone>>

\* res.text() resolves: the rest of the try block
TextResolves(r) ==
  /\ req[r].pc = "text"
  /\ LET res  == req[r].res
         json == JsonParse(res.body)
     IN IF ~res.ok
        THEN Fail(r, req,
                  ServerErrorMessage(res))
        ELSE IF json.kind = "error"
        THEN Fail(r, req,
                  InvalidJsonMessage(res.body))
        ELSE Succeed(r, ResponseContent(json))
  /\ lastOp' = "other"
  /\ UNCHANGED <<query, userId, storage, results, mounted, isTypingActive, typingTimeoutRef,
                 abortControllerRef, aborted, nReq, callLog, resetDone>>

\* ------------------------------------------------------ simulateTyping
\* a reveal step that keeps only the message it reveals: prev.filter(...)
MapDisplayed_OnlyTarget(msgs, messageId, shown) ==
  LET kept == SelectSeq(msgs, LAMBDA m : m.id = messageId)
  IN [i \in 1..Len(kept) |-> [kept[i] EXCEPT !.displayedContent = shown]]

\* prev.map(msg => msg.id === messageId ? { ...msg, ...patch } : msg)
\* with patch = { displayedContent }
MapDisplayed(msgs, messageId, shown) ==
  [i \in 1..Len(msgs) |->
     IF msgs[i].id = messageId
     THEN [msgs[i] EXCEPT !.displayedContent = shown]
     ELSE msgs[i]]

\* a last step that shows the full content but leaves isTyping set
MapFinished_KeepTyping(msgs, messageId, fullContent) ==
  MapDisplayed(msgs, messageId, fullContent)

\* a last step that also stamps the message anew (timestamp: new Date())
MapFinished_Rewrite(msgs, messageId, fullContent) ==
  [i \in 1..Len(msgs) |->
     IF msgs[i].id = messageId
     THEN [msgs[i] EXCEPT !.isTyping = FALSE, !.displayedContent = fullContent,
                          !.timestamp = @ + 1]
     ELSE msgs[i]]

\* the same with patch = { isTyping: false, displayedContent: fullContent }
MapFinished(msgs, messageId, fullContent) ==
  [i \in 1..Len(msgs) |->
     IF msgs[i].id = messageId
     THEN [msgs[i] EXCEPT !.isTyping = FALSE, !.displayedContent = fullContent]
     ELSE msgs[i]]

\* Math.min(2, words.length - currentWordIndex)
BatchSize(words, currentWordIndex) == Min(2, Len(words) - currentWordIndex)

\* one run of typeNextBatch for the reveal of request r
typeNextBatch(r) ==
  \E words \in {Split(req[r].content)} :
  LET currentWordIndex == req[r].idx
      batchSize == BatchSize(words, currentWordIndex)
  IN IF currentWordIndex >= Len(words)
     THEN /\ messages' = MapFinished(messages, req[r].msgId, req[r].content)
          /\ isTypingActive' = FALSE
          /\ req' = [req EXCEPT ![r].start = "fired", ![r].chain = "finished",
                                ![r].msgId = 0, ![r].content = <<>>,
                                ![r].idx = 0]
          /\ UNCHANGED typingTimeoutRef
     ELSE /\ messages' = MapDisplayed(messages, req[r].msgId,
                            Join(Slice(words, currentWordIndex + batchSize)))
          /\ req' = [req EXCEPT ![r].start = "fired", ![r].chain = "running",
                                ![r].idx = currentWordIndex + batchSize]
          /\ typingTimeoutRef' = r
          /\ isTypingActive' =
               IF req[r].chain = "none" THEN TRUE ELSE isTypingActive

\* the reveal-start timer of request r fires: simulateTyping(id, content).
\* simulateTyping is the callback handleConsult captured when it was called,
\* so its guard reads the isTypingActive of that render.
StartReveal(r) ==
  /\ req[r].start = "pending"
  /\ IF req[r].simulateTypingSees
     THEN /\ req' = [req EXCEPT ![r].start = "fired"]
          /\ UNCHANGED <<messages, isTypingActive, typingTimeoutRef>>
     ELSE typeNextBatch(r)
  /\ lastOp' = "other"
  /\ UNCHANGED <<query, loading, error, userId, storage, results, mounted, showInstructions,
                 abortControllerRef, aborted, nReq, nextId, callLog, resetDone>>

\* the 100 ms timer of the reveal of request r fires
BatchTimerFires(r) ==
  /\ req[r].chain = "running"
  /\ typeNextBatch(r)
  /\ lastOp' = "other"
  /\ UNCHANGED <<query, loading, error, userId, storage, results, mounted, showInstructions,
                 abortControllerRef, aborted, nReq, nextId, callLog, resetDone>>

\* -------------------------------------------------------- handleNewChat
\* clearTimeout(typingTimeoutRef.current)
ClearTypingTimeout(rq, t) ==
  IF t = 0 THEN rq
  ELSE IF rq[t].chain = "running"
  THEN [rq EXCEPT ![t].chain = "cleared", ![t].msgId = 0,
                  ![t].content = <<>>, ![t].idx = 0]
  ELSE rq

\* the New Chat button is rendered when messages.length > 0 and is disabled
\* while loading || isTypingActive
NewChatEnabled == Len(messages) > 0 /\ ~(loading \/ isTypingActive)

\* a reset that also starts a new session: a new user_id is generated and
\* stored
handleNewChat_NewSession ==
  /\ mounted
  /\ NewChatEnabled
  /\ messages' = <<>>
  /\ query' = <<>>
  /\ error' = Null
  /\ showInstructions' = TRUE
  /\ userId' = "uid-reset"
  /\ storage' = setItem(storage, "user_id", "uid-reset")
  /\ aborted' = IF abortControllerRef # 0
                THEN aborted \cup {abortControllerRef} ELSE aborted
  /\ req' = ClearTypingTimeout(AbortFetch(req, abortControllerRef),
                               typingTimeoutRef)
  /\ isTypingActive' = FALSE
  /\ callLog' = <<>>
  /\ resetDone' = TRUE
  /\ lastOp' = "handleNewChat"
  /\ UNCHANGED <<loading, results, mounted, typingTimeoutRef,
                 abortControllerRef, nReq, nextId>>

handleNewChat ==
  /\ mounted
  /\ NewChatEnabled
  /\ messages' = <<>>
  /\ query' = <<>>
  /\ error' = Null
  /\ showInstructions' = TRUE
  /\ aborted' = IF abortControllerRef # 0
                THEN aborted \cup {abortControllerRef} ELSE aborted
  /\ req' = ClearTypingTimeout(AbortFetch(req, abortControllerRef),
                               typingTimeoutRef)
  /\ isTypingActive' = FALSE
  /\ callLog' = <<>>
  /\ resetDone' = TRUE
  /\ lastOp' = "handleNewChat"
  /\ UNCHANGED <<loading, userId, storage, results, mounted, typingTimeoutRef,
                 abortControllerRef, nReq, nextId>>

\* --------------------------------------------------------------- unmount
\* an AbortError caught as if it were any other failure
AbortCaught_Surfaced(r, rq) == Fail(r, rq, <<"AbortError">>)

\* the catch block for an AbortError (`return`, nothing is shown), and the
\* finally block
AbortCaught(r, rq) ==
  /\ req' = [rq EXCEPT ![r].pc = "done", ![r].res = Null]
  /\ loading' = FinallyLoading
  /\ UNCHANGED <<error, messages, showInstructions, nextId>>

\* handleConsult of request a is suspended at `await Promise.race(...)` or at
\* `await res.text()`: aborting its controller rejects the awaited promise
Awaiting(rq, a) == a # 0 /\ rq[a].pc \in {"race", "text"}

\* the cleanup of the mount effect: clearTimeout(typingTimeoutRef.current) and
\* abortControllerRef.current.abort().  The rejection of the aborted fetch is
\* delivered to handleConsult in the microtasks of the same task.  State
\* setters called afterwards are modelled as still applied.
Unmount ==
  /\ mounted
  /\ mounted' = FALSE
  /\ aborted' = IF abortControllerRef # 0
                THEN aborted \cup {abortControllerRef} ELSE aborted
  /\ LET cleared == ClearTypingTimeout(AbortFetch(req, abortControllerRef),
                                       typingTimeoutRef)
     IN IF Awaiting(req, abortControllerRef)
        THEN AbortCaught(abortControllerRef, cleared)
        ELSE /\ req' = cleared
             /\ UNCHANGED <<loading, error, messages, showInstructions,
                            nextId>>
  /\ lastOp' = "unmount"
  /\ UNCHANGED <<query, userId, storage, results, isTypingActive, typingTimeoutRef,
                 abortControllerRef, nReq, callLog, resetDone>>

\* ---------------------------------------------------------------- spec
Next ==
  \/ \E q \in TypedQueries : SetQuery(q)
  \/ \E q \in sampleQuestions : handleSampleQuestion(q)
  \/ handleConsultAccept
  \/ handleConsultReturn
  \/ \E r \in ReqIds, res \in Responses : FetchResolves(r, res)
  \/ \E r \in ReqIds, m \in FetchErrors : FetchRejects(r, m)
  \/ \E r \in ReqIds : TimeoutFires(r)
  \/ \E r \in ReqIds : TextResolves(r)
  \/ \E r \in ReqIds : StartReveal(r)
  \/ \E r \in ReqIds : BatchTimerFires(r)
  \/ handleNewChat

Spec == Init /\ [][Next]_vars

\* timers fire: a callback set with setTimeout runs once its delay has passed
\* (the reveal-start timer, the 100 ms batch timer, the 30 s timeout)
TimersFire ==
  \A r \in ReqIds :
    /\ WF_vars(StartReveal(r))
    /\ WF_vars(BatchTimerFires(r))
    /\ WF_vars(TimeoutFires(r))

SpecFair == Spec /\ TimersFire

\* the page may also be left while it is in use
NextUnmount == Next \/ Unmount

SpecUnmount == Init /\ [][NextUnmount]_vars

\* the reveal of one answer, for every short text the service may answer with:
\* the state after handleSampleQuestion, handleConsult, the response
\* { "response": c } and the append of its assistant message
MaxContentLen == 5

RevealContents ==
  { <<"x", SP, "y", SP, "z">> }
    \cup UNION { [1..n -> {SP, "x"}] : n \in 1..MaxContentLen }

\* the state in which the reveal of the answer c to the question q is about
\* to start: handleConsult has appended both messages
RevealStart(c, q) ==
  /\ query = <<>>
  /\ loading = FALSE
  /\ error = Null
  /\ messages =
       <<[id |-> 1, type |-> "user", content |-> q, timestamp |-> 1],
         [id |-> 2, type |-> "ai", content |-> ResponseContent(
                                     JsonParse(JsonObj(c))),
          timestamp |-> 2, isTyping |-> TRUE, displayedContent |-> <<>>]>>
  /\ userId = MountUserId(StoredId)
  /\ storage = StorageWith(MountUserId(StoredId), "")
  /\ results = Null
  /\ mounted = TRUE
  /\ showInstructions = FALSE
  /\ isTypingActive = FALSE
  /\ typingTimeoutRef = 0
  /\ abortControllerRef = 1
  /\ aborted = {}
  /\ req = [r \in ReqIds |->
             IF r = 1
             THEN [NoReq EXCEPT !.pc = "done", !.fetch = "settled",
                                !.timer = "pending", !.query = q,
                                !.userId = MountUserId(StoredId),
                                !.userMsg = 1, !.msgId = 2,
                                !.content = ResponseContent(
                                              JsonParse(JsonObj(c))),
                                !.start = "pending", !.applied = 1]
             ELSE NoReq]
  /\ nReq = 1
  /\ nextId = 3
  /\ lastOp = "other"
  /\ callLog = <<1>>
  /\ resetDone = FALSE

InitReveal ==
  \E c \in RevealContents, q \in sampleQuestions : RevealStart(c, q)

NextReveal ==
  \/ \E r \in ReqIds : StartReveal(r)
  \/ \E r \in ReqIds : BatchTimerFires(r)

SpecReveal == InitReveal /\ [][NextReveal]_vars

\* ------------------------------------------------------ renderMarkdown
\* texts written character by character
BS == "\\"

\* .replace(/\\n/g, ' ') that removes the escape: .replace(/\\n/g, '')
RECURSIVE ReplaceEscapes_Remove(_)
ReplaceEscapes_Remove(s) ==
  IF s = <<>> THEN s
  ELSE IF Len(s) >= 2 /\ s[1] = BS /\ s[2] = "n"
       THEN ReplaceEscapes_Remove(SubSeq(s, 3, Len(s)))
       ELSE <<Head(s)>> \o ReplaceEscapes_Remove(Tail(s))

\* .replace(/\\n/g, ' '): every backslash followed by n becomes a blank
RECURSIVE ReplaceEscapes(_)
ReplaceEscapes(s) ==
  IF s = <<>> THEN s
  ELSE IF Len(s) >= 2 /\ s[1] = BS /\ s[2] = "n"
       THEN <<SP>> \o ReplaceEscapes(SubSeq(s, 3, Len(s)))
       ELSE <<Head(s)>> \o ReplaceEscapes(Tail(s))

\* the length of the run of newlines s starts with
LeadingNewlines(s) ==
  CHOOSE k \in 0..Len(s) :
    /\ \A i \in 1..k : s[i] = NL
    /\ k < Len(s) => s[k + 1] # NL

\* .replace(/\n{3,}/g, '\n\n'): a run of three or more newlines becomes two
RECURSIVE CollapseNewlines(_)
CollapseNewlines(s) ==
  IF s = <<>> THEN s
  ELSE IF LeadingNewlines(s) >= 3
       THEN <<NL, NL>>
              \o CollapseNewlines(SubSeq(s, LeadingNewlines(s) + 1, Len(s)))
       ELSE <<Head(s)>> \o CollapseNewlines(Tail(s))

\* cleanedContent of renderMarkdown, the text handed to marked
CleanedContent(content) == Trim(CollapseNewlines(ReplaceEscapes(content)))

\* answers of the service, character by character: backslashes, the letter n,
\* newlines, blanks and another letter
MaxTextLen == 6
MarkdownChars == {BS, "n", NL, SP, "a"}
MarkdownTexts == UNION { [1..n -> MarkdownChars] : n \in 1..MaxTextLen }

InitMarkdown ==
  \E c \in MarkdownTexts, q \in sampleQuestions : RevealStart(c, q)

\* the page renders every displayedContent the reveal produces
SpecMarkdown == InitMarkdown /\ [][NextReveal]_vars

\* the service may also answer with a non-2xx status
NextKinds ==
  Next \/ \E r \in ReqIds, res \in ErrorResponses : FetchResolves(r, res)

SpecKinds == Init /\ [][NextKinds]_vars

\* 200 responses whose JSON body has no response text: {}, {"response": ""}
\* (read alike by JsonParse) and []
BareBodies == { EmptyObj, EmptyArr }
BareResponses ==
  { [ok |-> TRUE, status |-> "200", statusText |-> "OK", body |-> b] :
      b \in BareBodies }

NextBodies ==
  Next \/ \E r \in ReqIds, res \in BareResponses : FetchResolves(r, res)

SpecBodies == Init /\ [][NextBodies]_vars

\* the user may also type or paste a text longer than the textarea accepts
\* ------------------------------------------------ page loads and storage
\* the values uuidv4() can return
UUIDs == {"uid-new", "uid-2", "uid-3", "uid-4"}

\* a localStorage access of the mount effect can throw (storage disabled or
\* blocked, quota exceeded): "getItem", "setItem", or "none" of them
StorageFaults == {"none", "getItem", "setItem"}

\* a mount effect that does not store the identifier it generated
StoreUserId_Skipped(st, uid) == st

\* localStorage.setItem("user_id", uid)
StoreUserId(st, uid) == setItem(st, "user_id", uid)

\* the mount effect: uid1 is the uuidv4() of the try block, uid2 the one of
\* the catch block
MountEffect(st, fault, uid1, uid2) ==
  IF fault = "getItem"
  THEN [userId |-> uid2, storage |-> st, caught |-> TRUE]
  ELSE LET uid == getItem(st, "user_id")
       IN IF uid # ""
          THEN [userId |-> uid, storage |-> st, caught |-> FALSE]
          ELSE IF fault = "setItem"
               THEN [userId |-> uid2, storage |-> st, caught |-> TRUE]
               ELSE [userId |-> uid1, storage |-> StoreUserId(st, uid1),
                     caught |-> FALSE]

\* the identifiers a state holds: uuidv4() returns none of them
UsedIds == {userId, getItem(storage, "user_id")}

\* the page is loaded (or loaded again): the component starts from its initial
\* state and the mount effect runs on the storage the browser has kept; what
\* the previous page had in flight is gone with its document
PageLoad(fault, uid1, uid2) ==
  /\ uid1 # uid2
  /\ LET m == MountEffect(storage, fault, uid1, uid2)
     IN /\ userId' = m.userId
        /\ storage' = m.storage
        /\ lastOp' = IF m.caught THEN "mountCatch" ELSE "mount"
  /\ query' = <<>>
  /\ loading' = FALSE
  /\ error' = Null
  /\ messages' = <<>>
  /\ mounted' = TRUE
  /\ UNCHANGED results
  /\ showInstructions' = TRUE
  /\ isTypingActive' = FALSE
  /\ typingTimeoutRef' = 0
  /\ abortControllerRef' = 0
  /\ aborted' = {}
  /\ req' = [r \in ReqIds |-> NoReq]
  /\ nReq' = 0
  /\ nextId' = 1
  /\ callLog' = <<>>
  /\ resetDone' = FALSE

\* what the storage of the origin holds before the first load
InitialStorages ==
  {StorageWith(uid, rest) : uid \in {"", "uid-old"}, rest \in {"", "kept"}}

\* before the first load: useState("") and no effect has run
InitStorage ==
  /\ query = <<>>
  /\ loading = FALSE
  /\ error = Null
  /\ messages = <<>>
  /\ userId = ""
  /\ storage \in InitialStorages
  /\ results = Null
  /\ mounted = FALSE
  /\ showInstructions = TRUE
  /\ isTypingActive = FALSE
  /\ typingTimeoutRef = 0
  /\ abortControllerRef = 0
  /\ aborted = {}
  /\ req = [r \in ReqIds |-> NoReq]
  /\ nReq = 0
  /\ nextId = 1
  /\ lastOp = "init"
  /\ callLog = <<>>
  /\ resetDone = FALSE

NextStorage ==
  \/ \E fault \in StorageFaults, uid1, uid2 \in UUIDs \ UsedIds :
       PageLoad(fault, uid1, uid2)
  \/ \E q \in TypedQueries : SetQuery(q)
  \/ handleConsultAccept
  \/ \E r \in ReqIds, m \in FetchErrors : FetchRejects(r, m)
  \/ handleNewChat

SpecStorage == InitStorage /\ [][NextStorage]_vars

\* ------------------------------------------------- the search page
\* src/app/page.tsx, IndianLegalSearchApp: query, loading and results are its
\* state; the tabs of the four sources render results.sources[source]
Sources == {"indian_kanoon", "supreme_court", "ecourts", "legal_news"}

\* what results.sources[source] can be: undefined, an object with an error
\* text, an object with docs, an object with neither, or an array
Missing == [kind |-> "missing"]
SourceError(text) == [kind |-> "error", error |-> text]
Docs(items) == [kind |-> "docs", items |-> items]
BareObject == [kind |-> "object"]
Array(items) == [kind |-> "array", items |-> items]

SearchFailedText == <<"Search", SP, "failed.">>

\* renderSearchResults(source, data): what the tab of the source shows
renderSearchResults(source, data) ==
  IF data.kind = "missing" THEN [view |-> "nothing"]
  ELSE IF data.kind = "error" /\ data.error # <<>>
  THEN [view |-> "error", text |-> data.error]
  ELSE LET resultsArray ==
             IF source = "indian_kanoon" /\ data.kind = "docs"
             THEN data.items
             ELSE IF data.kind = "array" THEN data.items
             ELSE <<>>
       IN IF Len(resultsArray) = 0
          THEN [view |-> "empty"]
          ELSE [view |-> "results", items |-> resultsArray]

\* the result lists of the search service
ResultLists == { <<>>, <<"doc">> }
\* the data of a source in a response of the search service
SourceData(source) ==
  {Missing, SourceError(<<"unavailable">>)}
    \cup (IF source = "indian_kanoon"
          THEN {BareObject} \cup {Docs(l) : l \in ResultLists}
          ELSE {Array(l) : l \in ResultLists})
SearchResponses ==
  { [sources |-> src] :
      src \in { f \in [Sources -> UNION {SourceData(x) : x \in Sources}] :
                  \A x \in Sources : f[x] \in SourceData(x) } }

\* the results the catch block of handleSearch sets
FailedResults ==
  [sources |-> [x \in Sources |->
                  IF x = "indian_kanoon" THEN SourceError(SearchFailedText)
                  ELSE Missing]]

\* the search input: onChange
SearchSetQuery(q) ==
  /\ query' = q
  /\ lastOp' = "other"
  /\ UNCHANGED <<loading, error, messages, userId, storage, results, mounted,
                 showInstructions, isTypingActive, typingTimeoutRef,
                 abortControllerRef, aborted, req, nReq, nextId, callLog,
                 resetDone>>

\* handleSearch up to `await fetch(...)`; the Search button is disabled while
\* loading || !query.trim()
handleSearch ==
  /\ ~loading
  /\ Trim(query) # <<>>
  /\ loading' = TRUE
  /\ results' = Null
  /\ lastOp' = "handleSearch"
  /\ UNCHANGED <<query, error, messages, userId, storage, mounted,
                 showInstructions, isTypingActive, typingTimeoutRef,
                 abortControllerRef, aborted, req, nReq, nextId, callLog,
                 resetDone>>

\* the search answers 2xx with a JSON body: setResults(data), then finally
SearchResolves(data) ==
  /\ loading
  /\ results' = data
  /\ loading' = FALSE
  /\ lastOp' = "searchResolved"
  /\ UNCHANGED <<query, error, messages, userId, storage, mounted,
                 showInstructions, isTypingActive, typingTimeoutRef,
                 abortControllerRef, aborted, req, nReq, nextId, callLog,
                 resetDone>>

\* fetch rejects, the status is not 2xx or the body is not JSON: the catch
\* block, then finally
SearchFails ==
  /\ loading
  /\ results' = FailedResults
  /\ loading' = FALSE
  /\ lastOp' = "searchFailed"
  /\ UNCHANGED <<query, error, messages, userId, storage, mounted,
                 showInstructions, isTypingActive, typingTimeoutRef,
                 abortControllerRef, aborted, req, nReq, nextId, callLog,
                 resetDone>>

NextSearch ==
  \/ \E q \in TypedQueries : SearchSetQuery(q)
  \/ handleSearch
  \/ \E data \in SearchResponses : SearchResolves(data)
  \/ SearchFails

SpecSearch == Init /\ [][NextSearch]_vars

\* ------------------------------------- the chat of src/app/page.tsx
\* the earlier ConsultationPage: the same state without isTypingActive and
\* without the two refs; its handlers carry the prefix Early
earlyUnused == <<userId, storage, results, mounted, isTypingActive,
                 typingTimeoutRef, abortControllerRef, aborted>>

NoResponse == <<"No", SP, "response">>
\* `Error: ${e?.message || "Something went wrong"}`
EarlyErrorContent(message) ==
  <<"Error:", SP>> \o (IF message # <<>> THEN message ELSE SomethingWrong)
\* `Request failed: ${res.status}`
RequestFailed(res) == <<"Request", SP, "failed:", SP, res.status>>
\* the message of the SyntaxError of res.json()
JsonSyntaxError == <<"Unexpected", SP, "token">>

\* Textarea onChange; the textarea is disabled while loading
EarlySetQuery(q) ==
  /\ ~loading
  /\ query' = q
  /\ lastOp' = "other"
  /\ UNCHANGED <<loading, error, messages, showInstructions, req, nReq,
                 nextId, callLog, resetDone>>
  /\ UNCHANGED earlyUnused

\* handleConsult up to `await fetch(...)`; the Send button and the textarea
\* are disabled while loading
EarlyHandleConsult ==
  /\ ~loading
  /\ Trim(query) # <<>>
  /\ nReq < MaxRequests
  /\ LET r == nReq + 1
         userMessage == [id |-> nextId, type |-> "user", content |-> query,
                         timestamp |-> nextId]
     IN /\ messages' = AppendMessage(messages, userMessage)
        /\ showInstructions' = HideInstructions(messages', showInstructions)
        /\ req' = [req EXCEPT ![r] =
                     [NoReq EXCEPT !.pc = "fetch", !.fetch = "pending",
                                   !.query = query, !.userId = userId,
                                   !.userMsg = nextId]]
        /\ nReq' = r
        /\ callLog' = Append(callLog, nextId)
  /\ nextId' = nextId + 1
  /\ loading' = TRUE
  /\ error' = Null
  /\ resetDone' = FALSE
  /\ lastOp' = "handleConsult"
  /\ UNCHANGED query
  /\ UNCHANGED earlyUnused

\* the try block after the awaits: the assistant message, the 500 ms timer,
\* then finally
EarlySucceed(r, responseContent) ==
  /\ messages' = AppendMessage(messages,
                   [id |-> nextId, type |-> "ai", content |-> responseContent,
                    timestamp |-> nextId,
                    isTyping |-> TRUE, displayedContent |-> <<>>])
  /\ showInstructions' = HideInstructions(messages', showInstructions)
  /\ req' = [req EXCEPT ![r].pc = "done", ![r].fetch = "settled",
                        ![r].res = Null, ![r].msgId = nextId,
                        ![r].content = responseContent,
                        ![r].start = "pending"]
  /\ nextId' = nextId + 1
  /\ loading' = FALSE
  /\ query' = <<>>
  /\ UNCHANGED error

\* the catch block: the error state, the error message, the 200 ms timer,
\* then finally
EarlyFail(r, message) ==
  /\ error' = ErrorOf(IF message # <<>> THEN message ELSE SomethingWrong)
  /\ messages' = AppendMessage(messages,
                   [id |-> nextId, type |-> "ai",
                    content |-> EarlyErrorContent(message),
                    timestamp |-> nextId,
                    isTyping |-> TRUE, displayedContent |-> <<>>])
  /\ showInstructions' = HideInstructions(messages', showInstructions)
  /\ req' = [req EXCEPT ![r].pc = "done", ![r].fetch = "settled",
                        ![r].res = Null, ![r].msgId = nextId,
                        ![r].content = EarlyErrorContent(message),
                        ![r].start = "pending"]
  /\ nextId' = nextId + 1
  /\ loading' = FALSE
  /\ query' = <<>>

\* fetch resolves with a response
EarlyFetchResolves(r, res) ==
  /\ req[r].pc = "fetch"
  /\ IF res.ok
     THEN /\ req' = [req EXCEPT ![r].pc = "json", ![r].fetch = "settled",
                                ![r].res = res]
          /\ UNCHANGED <<query, loading, error, messages, showInstructions,
                         nextId>>
     ELSE EarlyFail(r, RequestFailed(res))
  /\ lastOp' = "other"
  /\ UNCHANGED <<nReq, callLog, resetDone>>
  /\ UNCHANGED earlyUnused

\* fetch rejects with a transport error
EarlyFetchRejects(r, message) ==
  /\ req[r].pc = "fetch"
  /\ EarlyFail(r, message)
  /\ lastOp' = "other"
  /\ UNCHANGED <<nReq, callLog, resetDone>>
  /\ UNCHANGED earlyUnused

\* res.json() settles
EarlyJsonResolves(r) ==
  /\ req[r].pc = "json"
  /\ LET json == JsonParse(req[r].res.body)
     IN IF json.kind = "error"
        THEN EarlyFail(r, JsonSyntaxError)
        ELSE EarlySucceed(r, IF json.response # <<>> THEN json.response
                             ELSE NoResponse)
  /\ lastOp' = "other"
  /\ UNCHANGED <<nReq, callLog, resetDone>>
  /\ UNCHANGED earlyUnused

\* one run of typeNextWord for the reveal of request r
typeNextWord(r) ==
  \E words \in {Split(req[r].content)} :
  LET currentWordIndex == req[r].idx
  IN IF currentWordIndex < Len(words)
     THEN /\ messages' = MapDisplayed(messages, req[r].msgId,
                            Join(Slice(words, currentWordIndex + 1)))
          /\ req' = [req EXCEPT ![r].start = "fired", ![r].chain = "running",
                                ![r].idx = currentWordIndex + 1]
     ELSE /\ messages' = MapFinished(messages, req[r].msgId, req[r].content)
          /\ req' = [req EXCEPT ![r].start = "fired", ![r].chain = "finished"]

\* the 500 ms or 200 ms timer fires: simulateTyping(id, content)
EarlyStartReveal(r) ==
  /\ req[r].start = "pending"
  /\ typeNextWord(r)
  /\ lastOp' = "other"
  /\ UNCHANGED <<query, loading, error, showInstructions, nReq, nextId,
                 callLog, resetDone>>
  /\ UNCHANGED earlyUnused

\* the timer between two words fires
EarlyWordTimerFires(r) ==
  /\ req[r].chain = "running"
  /\ typeNextWord(r)
  /\ lastOp' = "other"
  /\ UNCHANGED <<query, loading, error, showInstructions, nReq, nextId,
                 callLog, resetDone>>
  /\ UNCHANGED earlyUnused

\* New Chat onClick: setMessages([]); the button is shown while the
\* transcript has messages
EarlyNewChat ==
  /\ Len(messages) > 0
  /\ messages' = <<>>
  /\ callLog' = <<>>
  /\ resetDone' = TRUE
  /\ lastOp' = "handleNewChat"
  /\ UNCHANGED <<query, loading, error, showInstructions, req, nReq, nextId>>
  /\ UNCHANGED earlyUnused

NextEarly ==
  \/ \E q \in TypedQueries : EarlySetQuery(q)
  \/ EarlyHandleConsult
  \/ \E r \in ReqIds, res \in Responses \cup ErrorResponses :
       EarlyFetchResolves(r, res)
  \/ \E r \in ReqIds, m \in FetchErrors : EarlyFetchRejects(r, m)
  \/ \E r \in ReqIds : EarlyJsonResolves(r)
  \/ \E r \in ReqIds : EarlyStartReveal(r)
  \/ \E r \in ReqIds : EarlyWordTimerFires(r)
  \/ EarlyNewChat

SpecEarly == Init /\ [][NextEarly]_vars

NextInput == Next \/ SetQuery(OversizedQuery)

SpecInput == Init /\ [][NextInput]_vars

\* ======================================================== properties
\* message i of the transcript is an assistant message with isTyping = true
Revealing(i) == messages[i].type = "ai" /\ messages[i].isTyping

RevealingMessages == { i \in 1..Len(messages) : Revealing(i) }

\* the requests whose reveal chain has a batch timer pending
RunningChains == { r \in ReqIds : req[r].chain = "running" }

\* the requests whose reveal-start timer is pending
PendingStarts == { r \in ReqIds : req[r].start = "pending" }

\* the requests handleConsult is awaiting (the race, or the body)
Outstanding == { r \in ReqIds : req[r].pc \in {"race", "text"} }

\* the ids of the user messages of the transcript, in transcript order
RECURSIVE UserIds(_)
UserIds(msgs) ==
  IF msgs = <<>> THEN <<>>
  ELSE IF Head(msgs).type = "user"
       THEN <<Head(msgs).id>> \o UserIds(Tail(msgs))
       ELSE UserIds(Tail(msgs))

\* the request that appended the user message with this id
RequestOf(id) == CHOOSE r \in ReqIds : req[r].userMsg = id

\* C1: at most one message of the transcript has isTyping = true and at most
\* one reveal chain is running, in every reachable state.
C1_SingleReveal ==
  /\ Cardinality(RevealingMessages) <= 1
  /\ Cardinality(RunningChains) <= 1

\* C2: no reachable state has a request in flight (loading) while a reveal is
\* in progress (isTypingActive, or a reveal chain running).
C2_RequestAndRevealSerialized ==
  ~(loading /\ (isTypingActive \/ RunningChains # {}))

\* C3: the user messages are in the transcript in call order; a user message
\* whose request is still awaited is the last message, and one whose request
\* has resolved is followed by exactly one assistant message.
C3_Ordering ==
  /\ UserIds(messages) = callLog
  /\ \A i \in 1..Len(messages) :
       IF messages[i].type = "user"
       THEN IF RequestOf(messages[i].id) \in Outstanding
            THEN i = Len(messages)
            ELSE /\ i < Len(messages)
                 /\ messages[i + 1].type = "ai"
                 /\ i + 2 <= Len(messages) => messages[i + 2].type = "user"
       ELSE i > 1 /\ messages[i - 1].type = "user"

\* two submits were accepted and both requests have resolved
C3_Witness ==
  /\ Len(callLog) = 2
  /\ Len(messages) = 4
  /\ Outstanding = {}

C5_OneOutcome ==
  /\ \A r \in ReqIds : req[r].applied <= 1
  /\ \A r \in ReqIds : req[r].applied = 1 <=> req[r].pc = "done"
  /\ Cardinality({ i \in 1..Len(messages) : messages[i].type = "ai" })
       <= Len(callLog)

\* a request that timed out (its user message is followed by the timeout
\* text) and whose fetch settled afterwards, without an abort
C5_Witness ==
  \E r \in ReqIds :
    /\ req[r].pc = "done"
    /\ req[r].fetch = "settled"
    /\ req[r].timer = "fired"
    /\ r \notin aborted
    /\ \E i \in 1..(Len(messages) - 1) :
         /\ messages[i].id = req[r].userMsg
         /\ messages[i + 1].content = TimeoutText

\* C6: at most one request is outstanding, and loading is true exactly while
\* one is.
C6_OneRequestAtATime ==
  /\ Cardinality(Outstanding) <= 1
  /\ loading <=> Outstanding # {}

\* the second request is outstanding after the first has resolved
C6_Witness ==
  /\ nReq = 2
  /\ Outstanding = {2}
  /\ loading

\* C7: a submit is accepted only when no request is in flight and no
\* assistant message is still revealing.
C7_AcceptedOnlyWhenIdle ==
  [][ nReq' = nReq + 1
      => /\ ~loading
         /\ \A i \in 1..Len(messages) :
              ~(Revealing(i)
                /\ messages[i].displayedContent # messages[i].content) ]_vars

\* C8: after handleNewChat and until the next accepted submit the transcript
\* is empty, the error state is null, isTypingActive is false and no reveal
\* timer (start or batch) is pending.
C8_ResetHaltsEverything ==
  resetDone =>
    /\ messages = <<>>
    /\ error = Null
    /\ ~isTypingActive
    /\ PendingStarts = {}
    /\ RunningChains = {}

\* running the assignments of handleNewChat in the current state changes nothing
NewChatFixpoint ==
  /\ messages = <<>>
  /\ query = <<>>
  /\ error = Null
  /\ showInstructions
  /\ ~isTypingActive
  /\ abortControllerRef # 0 => abortControllerRef \in aborted
  /\ ClearTypingTimeout(AbortFetch(req, abortControllerRef),
                        typingTimeoutRef) = req

\* C9: right after handleNewChat a second handleNewChat changes nothing, and
\* the transcript is empty, no timer of a reveal is pending and the error
\* state is null.
C9_ResetIdempotent ==
  lastOp = "handleNewChat" =>
    /\ NewChatFixpoint
    /\ PendingStarts = {}
    /\ RunningChains = {}

\* C10: a handleConsult call with an empty or all-blank draft changes neither
\* the transcript nor the requests nor loading nor the error state.
C10_BlankSubmitIgnored ==
  [][ (lastOp' = "handleConsult" /\ Trim(query) = <<>>)
      => UNCHANGED <<messages, req, nReq, loading, error, abortControllerRef,
                     aborted>> ]_vars

\* handleConsult was called with a draft of blanks in a conversation that
\* has messages
C10_Witness ==
  /\ lastOp = "handleConsult"
  /\ query = <<SP>>
  /\ Len(messages) > 0

TimesOut(r) ==
  /\ RacePending(req[r])
  /\ req[r].timer = "pending"
  /\ req'[r].timer = "fired"

\* C12: when the 30 s timer fires before the fetch has settled, one assistant
\* message with the Timeout text is appended (unrevealed, isTyping), the error
\* state holds the timeout message, loading becomes false, the request has
\* applied exactly one outcome, and no request is issued or re-issued.
C12_TimeoutOutcome ==
  [][ \A r \in ReqIds :
        TimesOut(r)
        => /\ loading /\ ~loading'
           /\ Len(messages') = Len(messages) + 1
           /\ SubSeq(messages', 1, Len(messages)) = messages
           /\ messages'[Len(messages')] =
                [id |-> nextId, type |-> "ai", content |-> TimeoutText,
                 timestamp |-> nextId,
                 isTyping |-> TRUE, displayedContent |-> <<>>]
           /\ error' = ErrorOf(TimeoutMessage)
           /\ req'[r].applied = 1
           /\ nReq' = nReq
           /\ \A s \in ReqIds :
                req'[s].fetch = "pending" => req[s].fetch = "pending" ]_vars

\* a request has ended by timeout: its Timeout message is the last of the
\* transcript and waits for its reveal, and loading is false
C12_Witness ==
  \E r \in ReqIds :
    /\ req[r].timer = "fired"
    /\ req[r].start = "pending"
    /\ req[r].content = TimeoutText
    /\ messages # <<>>
    /\ messages[Len(messages)].id = req[r].msgId
    /\ messages[Len(messages)].content = TimeoutText
    /\ ~loading

\* C13: in the state reached by a timeout (the Timeout message has just been
\* appended) a submit of a valid query is accepted: the guard of handleConsult
\* passes for it.
C13_AcceptsAfterTimeout ==
  [][ \A r \in ReqIds :
        TimesOut(r)
        => \A q \in sampleQuestions :
             ConsultGuard(q, loading', isTypingActive') ]_vars

\* p is a prefix of c that ends at a token boundary: it is empty (nothing
\* shown yet), or ends at the end of c or just before a blank
BoundaryPrefix(p, c) ==
  /\ Len(p) <= Len(c)
  /\ SubSeq(c, 1, Len(p)) = p
  /\ Len(p) = 0 \/ Len(p) = Len(c) \/ c[Len(p) + 1] = SP

\* C14: after every step the displayedContent of every assistant message is a
\* prefix of its content that ends at a token boundary, and the
\* displayedContent of a message that stays in the transcript never gets
\* shorter.
C14_RevealSafety ==
  [][ /\ \A i \in 1..Len(messages') :
           messages'[i].type = "ai"
           => BoundaryPrefix(messages'[i].displayedContent,
                             messages'[i].content)
      /\ \A i \in 1..Len(messages), j \in 1..Len(messages') :
           (messages[i].type = "ai" /\ messages'[j].id = messages[i].id)
           => Len(messages'[j].displayedContent)
                >= Len(messages[i].displayedContent) ]_vars

\* a reveal is under way: part of a message is shown, ending before a blank
C14_Witness ==
  \E i \in 1..Len(messages) :
    /\ Revealing(i)
    /\ messages[i].displayedContent # <<>>
    /\ Len(messages[i].displayedContent) < Len(messages[i].content)
    /\ Len(Split(messages[i].content)) > 2

\* the ids that messages can have
MessageIds == 1..(2 * MaxRequests)

\* the transcript holds an assistant message with this id that is still typing
Typing(id) ==
  \E i \in 1..Len(messages) :
    messages[i].id = id /\ messages[i].type = "ai" /\ messages[i].isTyping

\* C15: with timers that fire, every assistant message that is typing
\* eventually is not: it has left the transcript (reset) or its reveal is
\* complete.  An assistant message whose isTyping is false shows its whole
\* content, and its isTyping never becomes true again.
C15_RevealCompletes ==
  /\ \A id \in MessageIds : Typing(id) ~> ~Typing(id)
  /\ [][ \A j \in 1..Len(messages') :
           (messages'[j].type = "ai" /\ ~messages'[j].isTyping)
           => messages'[j].displayedContent = messages'[j].content ]_vars
  /\ [][ \A i \in 1..Len(messages), j \in 1..Len(messages') :
           ( /\ messages[i].type = "ai"
             /\ messages'[j].id = messages[i].id
             /\ ~messages[i].isTyping )
           => ~messages'[j].isTyping ]_vars

\* the reveal of a message of more than one batch has completed
C15_Witness ==
  \E i \in 1..Len(messages) :
    /\ messages[i].type = "ai"
    /\ ~messages[i].isTyping
    /\ messages[i].displayedContent = messages[i].content
    /\ Len(Split(messages[i].content)) > 2

\* text t begins with head
StartsWith(t, head) ==
  Len(t) >= Len(head) /\ SubSeq(t, 1, Len(head)) = head

\* the content of the message appended by this step
Appended == messages'[Len(messages')].content

\* C16: the text appended for a failed request is the text of its failure
\* kind: the Timeout text when the 30 s timer ends the request, the
\* connectivity text when the fetch is rejected, the Server Error text with
\* the status when the status is not 2xx, and the malformed-response text when
\* the body is not JSON - whatever the body or the error message contains.
C16_TextByKind ==
  [][ \A r \in ReqIds :
        /\ TimesOut(r) => Appended = TimeoutText
        /\ ( /\ RacePending(req[r])
             /\ req[r].fetch = "pending" /\ req'[r].fetch = "settled"
             /\ req'[r].pc = "done" )
           => Appended = ConnectText
        /\ (req[r].pc = "text" /\ req'[r].pc = "done" /\ ~req[r].res.ok)
           => /\ StartsWith(Appended, ServerErrorHead)
              /\ Includes(Appended, <<req[r].res.status>>)
        /\ ( /\ req[r].pc = "text" /\ req'[r].pc = "done" /\ req[r].res.ok
             /\ JsonParse(req[r].res.body).kind = "error" )
           => StartsWith(Appended,
                         ErrorHead \o <<"Invalid", SP, "JSON", SP, "response">>)
    ]_vars

\* handleConsult of request r ends in this step
Ends(r) == req[r].pc \in {"race", "text"} /\ req'[r].pc = "done"

\* ... with the answer of the service
EndsInSuccess(r) ==
  /\ Ends(r)
  /\ req[r].pc = "text"
  /\ req[r].res.ok
  /\ JsonParse(req[r].res.body).kind # "error"
  /\ lastOp' # "unmount"

\* ... because its controller was aborted
EndsByAbort(r) == Ends(r) /\ lastOp' = "unmount"

\* ... with a failure that is not an abort: the timeout, a rejected fetch, a
\* non-2xx status or a body that is not JSON
EndsInFailure(r) == Ends(r) /\ ~EndsInSuccess(r) /\ ~EndsByAbort(r)

\* this step appends one assistant message for request r, not yet revealed,
\* schedules its reveal and sets the error state
FailureShown(r) ==
  /\ Len(messages') = Len(messages) + 1
  /\ SubSeq(messages', 1, Len(messages)) = messages
  /\ messages'[Len(messages')].type = "ai"
  /\ messages'[Len(messages')].isTyping
  /\ messages'[Len(messages')].displayedContent = <<>>
  /\ messages'[Len(messages')].id = req'[r].msgId
  /\ req'[r].start = "pending"
  /\ req'[r].applied = 1
  /\ error' # Null
  /\ messages'[Len(messages')].content = ErrorContent(error'.message)

\* C17 as stated: every request that does not end in success, an aborted one
\* included, appends one assistant message, schedules its reveal and sets the
\* error state; an accepted submit clears the error state.
C17_EveryFailureShown ==
  [][ /\ \A r \in ReqIds : (Ends(r) /\ ~EndsInSuccess(r)) => FailureShown(r)
      /\ nReq' # nReq => error' = Null ]_vars

\* C17 (amended): every request that ends in a failure other than an abort
\* appends one assistant message built from the error message, schedules its
\* reveal and sets the error state; an aborted request appends nothing and
\* leaves the error state as it was; an accepted submit clears the error state.
C17_FailureShownUnlessAborted ==
  [][ /\ \A r \in ReqIds :
           /\ EndsInFailure(r) => FailureShown(r)
           /\ EndsByAbort(r) => (messages' = messages /\ error' = error)
      /\ nReq' # nReq => error' = Null ]_vars

\* a request has failed (rejected fetch): its message is the last one and
\* waits for its reveal, and the error state holds the error message
C17_Witness ==
  \E r \in ReqIds :
    /\ req[r].pc = "done"
    /\ req[r].start = "pending"
    /\ req[r].content = ConnectText
    /\ error = ErrorOf(FailedToFetch)
    /\ messages # <<>>
    /\ messages[Len(messages)].id = req[r].msgId

\* C18: when a request ends because its controller was aborted, no message is
\* appended and the error state is not set: the transcript, the error state,
\* the draft, the reveal flag and the instructions stay as they were, no
\* reveal is scheduled, and loading becomes false.
C18_CancelledNotSurfaced ==
  [][ \A r \in ReqIds :
        EndsByAbort(r)
        => /\ messages' = messages
           /\ error' = error
           /\ query' = query
           /\ isTypingActive' = isTypingActive
           /\ showInstructions' = showInstructions
           /\ nextId' = nextId
           /\ req'[r].start = "none"
           /\ req'[r].applied = 0
           /\ loading /\ ~loading' ]_vars

\* a request was aborted while handleConsult awaited it: it has ended without
\* an outcome in the transcript
C18_Witness ==
  \E r \in ReqIds :
    /\ r \in aborted
    /\ req[r].pc = "done"
    /\ req[r].applied = 0
    /\ ~loading
    /\ ~mounted

\* C19: with timers that fire, the session is idle again and again: from
\* every state a state with loading = false and isTypingActive = false is
\* reached.
C19_ReturnsToIdle == []<>(~loading /\ ~isTypingActive)

\* C20: a fetch is issued only by an accepted submit, one per submit, for the
\* request of that submit, with the trimmed draft as query and the user_id of
\* the session; no other step issues or re-issues a fetch, whatever the
\* outcome of a request.
C20_OnePostPerSubmit ==
  [][ /\ \A r \in ReqIds :
           (req'[r].fetch = "pending" /\ req[r].fetch # "pending")
           => /\ nReq' = nReq + 1
              /\ r = nReq'
              /\ req[r].pc = "unused"
              /\ ConsultGuard(query, loading, isTypingActive)
              /\ req'[r].query = Trim(query)
              /\ req'[r].userId = userId
      /\ nReq' # nReq
         => /\ nReq' = nReq + 1
            /\ req'[nReq'].fetch = "pending"
            /\ req[nReq'].fetch = "none"
      /\ \A r \in ReqIds :
           req[r].pc # "unused"
           => (req'[r].query = req[r].query /\ req'[r].userId = req[r].userId)
    ]_vars

\* a second submit has been accepted after the first request timed out: the
\* second fetch is pending with the trimmed query and the user_id, and the
\* first request has not been sent again
C20_Witness ==
  /\ nReq = 2
  /\ req[1].pc = "done"
  /\ req[1].content = TimeoutText
  /\ req[2].fetch = "pending"
  /\ req[2].query = <<"What", SP, "rights?">>
  /\ req[2].userId = userId
  /\ lastOp = "handleConsult"

\* C21: every step other than handleNewChat leaves the messages of the
\* transcript in place: the transcript does not get shorter and each position
\* keeps the message with the same id (new messages come after them).
C21_AppendOnly ==
  [][ lastOp' # "handleNewChat"
      => /\ Len(messages') >= Len(messages)
         /\ \A i \in 1..Len(messages) : messages'[i].id = messages[i].id ]_vars

\* a reveal step has run on the first answer while a later submit and its
\* answer are already in the transcript
C21_Witness ==
  /\ Len(messages) >= 4
  /\ lastOp # "handleNewChat"
  /\ \E i \in 1..Len(messages) :
       /\ messages[i].type = "ai"
       /\ messages[i].displayedContent # <<>>
       /\ i < Len(messages)

\* C22: a message that stays in the transcript keeps its id, type, content and
\* timestamp in every step; a step that changes displayedContent or isTyping
\* of a message is a reveal step (the reveal-start timer or the batch timer of
\* a request) and changes them only for the message that request appended.
C22_ContentImmutable ==
  [][ \A i \in 1..Len(messages) :
        i <= Len(messages')
        => /\ messages'[i].id = messages[i].id
           /\ messages'[i].type = messages[i].type
           /\ messages'[i].content = messages[i].content
           /\ messages'[i].timestamp = messages[i].timestamp
           /\ messages[i].type = "user" => messages'[i] = messages[i]
           /\ (messages[i].type = "ai" /\ messages'[i] # messages[i])
              => \E r \in ReqIds :
                   /\ req[r].msgId = messages[i].id
                   /\ req[r].start = "pending" \/ req[r].chain = "running"
                   /\ req'[r].idx # req[r].idx \/ req'[r].chain = "finished"
                   /\ \A j \in 1..Len(messages) :
                        j # i => messages'[j] = messages[j] ]_vars

\* two answers are in the transcript, the reveal of the second has finished and
\* the first is still partly shown
C22_Witness ==
  \E i, j \in 1..Len(messages) :
    /\ i < j
    /\ messages[i].type = "ai" /\ messages[j].type = "ai"
    /\ messages[i].isTyping
    /\ ~messages[j].isTyping
    /\ messages[j].displayedContent = messages[j].content

\* C23: handleNewChat leaves userId and the stored user_id as they were, and
\* all requests of a session, before and after a reset, carry the same user_id:
\* the userId of the session.
C23_ResetKeepsUserId ==
  [][ /\ lastOp' = "handleNewChat"
         => (userId' = userId /\ storage' = storage)
      /\ \A r \in ReqIds :
           req'[r].pc # "unused" => req'[r].userId = userId' ]_vars

\* a submit was accepted, the transcript was reset, and a second submit has
\* been accepted since: its request is pending
C23_Witness ==
  /\ nReq = 2
  /\ Len(callLog) = 1
  /\ req[1].pc = "done"
  /\ req[2].fetch = "pending"
  /\ req[2].userId = req[1].userId
  /\ Len(messages) = 1

\* a step that is a page load, and one whose mount effect ran to its end
\* without an exception
IsLoad == lastOp' \in {"mount", "mountCatch"}
IsCleanLoad == lastOp' = "mount"

\* what a load does to the identifier: a stored user_id is reused and the
\* storage is left alone; with none stored, a new one is stored and used
ReadOrCreate ==
  /\ getItem(storage, "user_id") # ""
       => (userId' = getItem(storage, "user_id") /\ storage' = storage)
  /\ getItem(storage, "user_id") = ""
       => (userId' \in UUIDs /\ storage' = setItem(storage, "user_id", userId'))

\* what any step does to the storage: a stored user_id stays, and no other
\* key is written
StorageKept ==
  /\ getItem(storage, "user_id") # ""
       => getItem(storage', "user_id") = getItem(storage, "user_id")
  /\ \A k \in StorageKeys \ {"user_id"} : storage'[k] = storage[k]

\* C24 as stated: every page load reads or creates the identifier, so that
\* every load after the first uses the stored one; only user_id is written.
C24_ReadOrCreate ==
  [][ (IsLoad => ReadOrCreate) /\ StorageKept ]_vars

\* C24, amended: a load whose storage accesses do not throw reads or creates
\* the identifier; a load whose storage access throws uses a new identifier
\* and writes nothing; a stored user_id is never replaced and only user_id is
\* ever written; requests carry the identifier of their load.
C24_ReadOrCreateUnlessThrown ==
  [][ /\ IsCleanLoad => ReadOrCreate
      /\ lastOp' = "mountCatch" => (userId' \in UUIDs /\ storage' = storage)
      /\ StorageKept
      /\ \A r \in ReqIds :
           req'[r].pc # "unused" => req'[r].userId = userId' ]_vars

\* a load has created and stored an identifier, other data of the origin is
\* still in the storage, and a request of the page carries the identifier
C24_Witness ==
  /\ userId \in UUIDs
  /\ getItem(storage, "user_id") = userId
  /\ getItem(storage, "other") = "kept"
  /\ nReq = 1
  /\ req[1].userId = userId

\* a load whose localStorage access threw: the page uses an identifier that
\* is not the stored one
C24_CatchWitness ==
  /\ lastOp = "mountCatch"
  /\ getItem(storage, "user_id") = "uid-old"
  /\ userId # "uid-old"

\* the step in which request r, answered with a 2xx status and a body that
\* parses, appends its assistant message
Normalizes(r) ==
  /\ req[r].pc = "text"
  /\ req[r].res.ok
  /\ JsonParse(req[r].res.body).kind # "error"
  /\ req'[r].pc = "done"
  /\ Len(messages') = Len(messages) + 1

\* C25: the content of the assistant message is the response field of the
\* parsed body when that is a non-empty text, and the fixed placeholder when
\* the body has no non-empty text field.
C25_PlaceholderFallback ==
  [][ \A r \in ReqIds :
        Normalizes(r)
        => LET json == JsonParse(req[r].res.body)
               last == messages'[Len(messages')]
           IN /\ last.type = "ai"
              /\ last.content = IF json.response # <<>> THEN json.response
                                ELSE Placeholder ]_vars

\* an object without a response text has been answered with "[object Object]"
C25_ObjectShown ==
  \E i \in 1..Len(messages) :
    messages[i].type = "ai" /\ messages[i].content = ObjectToString

\* the empty array has been answered with the placeholder
C25_PlaceholderShown ==
  \E i \in 1..Len(messages) :
    messages[i].type = "ai" /\ messages[i].content = Placeholder

\* the texts renderMarkdown is called with: message.displayedContent || ""
\* of every assistant message
RenderedTexts ==
  { messages[i].displayedContent :
      i \in { j \in 1..Len(messages) : messages[j].type = "ai" } }

HasEscape(s) == \E i \in 1..(Len(s) - 1) : s[i] = BS /\ s[i + 1] = "n"
HasNewlineRun(s, n) ==
  \E i \in 1..(Len(s) - n + 1) : \A k \in 0..(n - 1) : s[i + k] = NL

\* C26: the cleaned content of every rendered text has no backslash followed
\* by n and no run of more than two newlines, and cleaning it again changes
\* nothing.  (The cleaning reads its argument only, so a repeated run on the
\* same text returns the same text.)
C26_CleanNormalForm ==
  \A t \in RenderedTexts :
    LET out == CleanedContent(t)
    IN /\ ~HasEscape(out)
       /\ ~HasNewlineRun(out, 3)
       /\ CleanedContent(out) = out

\* a fully revealed answer with a literal \n and four newlines in a row
C26_Witness ==
  \E t \in RenderedTexts :
    /\ HasEscape(t)
    /\ HasNewlineRun(t, 4)
    /\ CleanedContent(t) # t
    /\ ~isTypingActive

\* the result list of a source as the service sent it; none when missing
ListOf(source, data) ==
  IF source = "indian_kanoon" /\ data.kind = "docs" THEN data.items
  ELSE IF source # "indian_kanoon" /\ data.kind = "array" THEN data.items
  ELSE <<>>

\* C27: whenever results are shown, each of the four sources shows its error
\* if its data has an error marker, an explicit empty state if its list is
\* empty or missing, and its results otherwise, whatever the other sources
\* hold, also after a failed search.
C27_PerSourceView ==
  results # Null =>
    \A x \in Sources :
      LET data == results.sources[x]
          shown == renderSearchResults(x, data)
      IN IF data.kind = "error"
         THEN shown.view = "error" /\ shown.text = data.error
         ELSE IF ListOf(x, data) = <<>>
         THEN shown.view = "empty"
         ELSE shown.view = "results" /\ shown.items = ListOf(x, data)

\* after a failed search, the three other tabs show nothing at all
C27_BlankTabs ==
  /\ lastOp = "searchFailed"
  /\ renderSearchResults("indian_kanoon",
                         results.sources["indian_kanoon"]).view = "error"
  /\ \A x \in Sources \ {"indian_kanoon"} :
       renderSearchResults(x, results.sources[x]).view = "nothing"

\* the same statement for the sources the response has data for
C27_PerPresentSourceView ==
  results # Null =>
    \A x \in Sources :
      LET data == results.sources[x]
          shown == renderSearchResults(x, data)
      IN data.kind # "missing"
         => IF data.kind = "error"
            THEN shown.view = "error" /\ shown.text = data.error
            ELSE IF ListOf(x, data) = <<>>
            THEN shown.view = "empty"
            ELSE shown.view = "results" /\ shown.items = ListOf(x, data)

\* C28: in the chat of src/app/page.tsx, New Chat cancels the pending request
\* and the running reveal: the transcript stays empty from the reset to the
\* next accepted submit, and a request appends its assistant message only
\* while its own user message is in the transcript.
C28_ResetCancels ==
  [][ /\ resetDone' => messages' = <<>>
      /\ \A r \in ReqIds :
           (req[r].pc # "done" /\ req'[r].pc = "done")
           => \E i \in 1..Len(messages') :
                messages'[i].id = req[r].userMsg ]_vars

\* the answer to a request issued before the reset is the only message of
\* the transcript, and its reveal is running
C28_StaleAnswer ==
  /\ resetDone
  /\ Len(messages) = 1
  /\ messages[1].type = "ai"
  /\ messages[1].displayedContent # <<>>

\* C29: whenever isTypingActive is set, the transcript holds the message under
\* reveal, with isTyping set, so the input and New Chat are locked only by the
\* reveal of a message that is in the transcript.
C29_FlagAgreesWithTranscript ==
  isTypingActive
  => \E r \in ReqIds :
       /\ req[r].chain = "running"
       /\ \E i \in 1..Len(messages) :
            /\ messages[i].id = req[r].msgId
            /\ messages[i].type = "ai"
            /\ messages[i].isTyping

\* after a reset, with an empty transcript, the flag is set: the textarea
\* and New Chat are disabled by the reveal of a message that is gone
C29_LockedByGoneMessage ==
  /\ isTypingActive
  /\ messages = <<>>
  /\ resetDone
  /\ ~NewChatEnabled

\* C30: in every state the draft has at most MaxQueryLength characters, and so
\* has the query of every request the page has sent.
C30_DraftWithinLimit ==
  /\ Length(query) <= MaxQueryLength
  /\ \A r \in ReqIds :
       req[r].pc # "unused" => Length(req[r].query) <= MaxQueryLength

\* a request was sent, and later a text of more than MaxQueryLength characters
\* was put into the textarea and dropped
C30_Witness ==
  /\ lastOp = "onChangeDropped"
  /\ Length(query) <= MaxQueryLength
  /\ \E r \in ReqIds : req[r].pc # "unused" /\ Length(req[r].query) > 0

====
